---- MODULE Spec2Model ----
\* Clap counter (src/main.rs): the loudness estimator (process_audio) and the
\* burst classifier (the control loop of run) over one shared AppState.
EXTENDS Integers, Sequences, FiniteSets, TLC

VARIABLES
    state,    \* the AppState behind Arc<Mutex<..>>
    now,      \* the monotonic clock read by Instant::now(), in seconds
    run,      \* "Running" while the loop of run() iterates, "TimedOut" once it returned
    report,   \* the final summary printed by run() ("Hard plaps: .. Soft plaps: ..")
    blocks,   \* history: number of audio blocks ingested so far
    heard,    \* history: the exact sum of the loudness values ingested so far
    hist,     \* history: instants and tick counts of the classifier's last events
    lock,     \* the holder of the Mutex around the AppState: "none", "loop" or "audio"
    pc,       \* where the control loop and the audio callback stand
    pending   \* the loudness of the block the audio callback is working on

vars == <<state, now, run, report, blocks, heard, hist, lock, pc, pending>>

threads == <<lock, pc, pending>>

-----------------------------------------------------------------------------
\* Bounds of the model.

MaxTime == 6        \* the clock stops advancing here
MaxIngest == 3      \* audio blocks ingested in Spec
MaxDistance == 9    \* cap on last_peak_distance
MaxLimit == 1       \* largest time limit, in seconds
MaxBlocks == 51     \* audio blocks ingested in SpecBaseline
MaxLiveIngest == 2  \* audio blocks ingested in SpecLock

-----------------------------------------------------------------------------
\* Program constants (durations in seconds).

ACTIVE_DELAY == 1
CALIBRATION_COMPLETE_DELAY == 2
BASELINE_WINDOW == 50
PEAK_THRESHOLD == 15
RESET_THRESHOLD == 4
RESET_DISTANCE == 8

-----------------------------------------------------------------------------
\* f32 values.  A finite value is m * 2^e, where |m| is the 24-bit significand
\* of the f32 (2^23 <= |m| < 2^24) and e >= -149 its exponent, or |m| < 2^23
\* and e = -149 for a subnormal value, or m = 0 and e = 0 for zero; every
\* finite f32 is written so in exactly one way.  The non-finite values are
\* -inf, +inf and NaN.  Every operation gives the f32 nearest to the exact
\* result, ties to the even significand, as IEEE 754 single precision does;
\* the sign of a zero is not kept (no operation of the program depends on it).

Powers ==
    <<1, 2, 4, 8, 16, 32, 64, 128, 256, 512, 1024, 2048, 4096, 8192, 16384,
      32768, 65536, 131072, 262144, 524288, 1048576, 2097152, 4194304, 8388608,
      16777216, 33554432, 67108864, 134217728, 268435456, 536870912, 1073741824>>

\* 2^n for 0 <= n <= 30
Pow2(n) == Powers[n + 1]

\* the number of bits of i, 0 <= i < 2^31
BitLen4(i) == IF i < 4 THEN (IF i < 2 THEN i ELSE 2) ELSE (IF i < 8 THEN 3 ELSE 4)
BitLen8(i) == IF i < 16 THEN BitLen4(i) ELSE 4 + BitLen4(i \div 16)
BitLen16(i) == IF i < 256 THEN BitLen8(i) ELSE 8 + BitLen8(i \div 256)
BitLen(i) == IF i < 65536 THEN BitLen16(i) ELSE 16 + BitLen16(i \div 65536)

Abs(i) == IF i < 0 THEN -i ELSE i

NEG_INFINITY == [k |-> "ninf", m |-> 0, e |-> 0]
INFINITY == [k |-> "pinf", m |-> 0, e |-> 0]
NaN == [k |-> "nan", m |-> 0, e |-> 0]
Zero == [k |-> "fin", m |-> 0, e |-> 0]

\* the sign of a value: -1 or 1
Sign(a) == IF a.k = "ninf" \/ (a.k = "fin" /\ a.m < 0) THEN -1 ELSE 1

Inf(sign) == IF sign < 0 THEN NEG_INFINITY ELSE INFINITY

\* sign * M * 2^e written with the significand moved up by `up` bits
PackUp(sign, M, e, up) ==
    IF e - up > 104 THEN Inf(sign)
    ELSE [k |-> "fin", m |-> sign * M * Pow2(up), e |-> e - up]

\* sign * M * 2^e for an M of L bits, 0 < M < 2^24, and e >= -149
PackBits(sign, M, e, L) ==
    PackUp(sign, M, e, IF 24 - L < e + 149 THEN 24 - L ELSE e + 149)

\* sign * M * 2^e for 0 < M < 2^24 and e >= -149, written as an f32
Pack(sign, M, e) == PackBits(sign, M, e, BitLen(M))

\* sign * Q * 2^q for 0 <= Q <= 2^24, written as an f32
Carry(sign, Q, q) ==
    IF Q = 0 THEN Zero
    ELSE Pack(sign, IF Q = 16777216 THEN 8388608 ELSE Q, IF Q = 16777216 THEN q + 1 ELSE q)

\* the whole number nearest to Q + (R + r) / (2 * half), ties to the even one
Nearest(Q, R, half, sticky) ==
    IF R > half \/ (R = half /\ (sticky \/ Q % 2 = 1)) THEN Q + 1 ELSE Q

\* the whole number nearest to (M + r) / 2^s for an M of L bits and s > 0
Shifted(M, sticky, L, s) ==
    IF s > L THEN 0
    ELSE IF s > 30 THEN (IF M = Pow2(30) /\ ~sticky THEN 0 ELSE 1)
    ELSE Nearest(M \div Pow2(s), M % Pow2(s), Pow2(s) \div 2, sticky)

\* Round with s bits of M dropped
RoundShift(sign, M, sticky, e, L, s) ==
    Carry(sign, IF s <= 0 THEN M ELSE Shifted(M, sticky, L, s), IF s <= 0 THEN e ELSE e + s)

\* Round for an M of L bits, L > 0: the lowest bit kept is that of 2^(e + L - 24)
\* and none below 2^-149
RoundBits(sign, M, sticky, e, L) ==
    RoundShift(sign, M, sticky, e, L,
               IF e + L - 24 > -149 THEN L - 24 ELSE -149 - e)

\* the f32 nearest to sign * (M + r) * 2^e, where 0 <= M < 2^31 and r is 0
\* when sticky is FALSE and some value strictly between 0 and 1 otherwise:
\* 24 significant bits, none below 2^-149
Round(sign, M, sticky, e) ==
    IF M = 0 THEN Zero ELSE RoundBits(sign, M, sticky, e, BitLen(M))

\* the f32 of a whole number (below 2^24 in size) and of m * 2^e (e >= -149)
F(i) == IF i = 0 THEN Zero ELSE Pack(IF i < 0 THEN -1 ELSE 1, Abs(i), 0)
Fin(m, e) == IF m = 0 THEN Zero ELSE Pack(IF m < 0 THEN -1 ELSE 1, Abs(m), e)

\* M * 2^e with M moved up by `up` bits
TopUp(M, e, up) == [M |-> M * Pow2(up), e |-> e - up]

\* a finite non-zero value with its significand brought to 24 bits, which
\* changes a subnormal value only: |a| = M * 2^e with 2^23 <= M < 2^24
Top(a) ==
    IF Abs(a.m) >= 8388608 THEN [M |-> Abs(a.m), e |-> a.e]
    ELSE TopUp(Abs(a.m), a.e, 24 - BitLen(Abs(a.m)))

Neg(a) ==
    CASE a.k = "fin" -> [a EXCEPT !.m = -a.m]
      [] a.k = "ninf" -> INFINITY
      [] a.k = "pinf" -> NEG_INFINITY
      [] OTHER -> NaN

\* sx * X * 2^e + sy * (Y + r) * 2^e, where r is 0 when st is FALSE and
\* strictly between 0 and 1 otherwise, and X > Y when st is TRUE
AddAligned(sx, X, sy, Y, st, e) ==
    Round(IF sx = sy \/ X >= Y THEN sx ELSE sy,
          IF sx = sy THEN X + Y
          ELSE IF X >= Y THEN (IF st THEN X - Y - 1 ELSE X - Y)
          ELSE Y - X,
          st, e)

\* sx * tx + sy * ty for tx.e >= ty.e: five bits below the significand of tx
\* are kept exactly, what lies below them as sticky
AddOrdered(sx, tx, sy, ty) ==
    AddAligned(sx, tx.M * 32, sy,
               IF tx.e - ty.e >= 30 THEN 0 ELSE (ty.M * 32) \div Pow2(tx.e - ty.e),
               IF tx.e - ty.e >= 30 THEN TRUE ELSE (ty.M * 32) % Pow2(tx.e - ty.e) # 0,
               tx.e - 5)

\* the sum of two finite non-zero values given by sign and Top
AddTop(sa, ta, sb, tb) ==
    AddOrdered(IF ta.e >= tb.e THEN sa ELSE sb, IF ta.e >= tb.e THEN ta ELSE tb,
               IF ta.e >= tb.e THEN sb ELSE sa, IF ta.e >= tb.e THEN tb ELSE ta)

Add(a, b) ==
    CASE a.k = "nan" \/ b.k = "nan" -> NaN
      [] a.k = "fin" /\ b.k = "fin" ->
            IF a.m = 0 THEN b
            ELSE IF b.m = 0 THEN a
            ELSE AddTop(Sign(a), Top(a), Sign(b), Top(b))
      [] a.k = "fin" -> b
      [] b.k = "fin" -> a
      [] a.k = b.k -> a
      [] OTHER -> NaN            \* inf + -inf

Sub(a, b) == Add(a, Neg(b))

\* the product of two finite non-zero values given by Top: the 48-bit product
\* of the two 24-bit significands, in halves of 12 bits, of which the upper
\* 30 bits are kept exactly and the rest as sticky
MulTop(sign, ta, tb) ==
    LET ah == ta.M \div 4096
        al == ta.M % 4096
        bh == tb.M \div 4096
        bl == tb.M % 4096
        mid == ah * bl + al * bh
        low == al * bl + (mid % 4096) * 4096
        hi == ah * bh + mid \div 4096 + low \div 16777216
        lo == low % 16777216
    IN  Round(sign, hi * 64 + lo \div 262144, lo % 262144 # 0, ta.e + tb.e + 18)

Mul(a, b) ==
    CASE a.k = "nan" \/ b.k = "nan" -> NaN
      [] a.k = "fin" /\ b.k = "fin" ->
            IF a.m = 0 \/ b.m = 0 THEN Zero
            ELSE MulTop(Sign(a) * Sign(b), Top(a), Top(b))
      [] (a.k = "fin" /\ a.m = 0) \/ (b.k = "fin" /\ b.m = 0) -> NaN     \* 0 * inf
      [] OTHER -> Inf(Sign(a) * Sign(b))

\* seven more bits of a long division by D: the quotient so far and the
\* remainder, as <<quotient, remainder>>
DivStep(qr, D) == <<qr[1] * 128 + (qr[2] * 128) \div D, (qr[2] * 128) % D>>

\* the quotient of two finite non-zero values given by Top: 28 bits of the
\* quotient of the two 24-bit significands by long division, seven bits at a
\* time, and the remainder as sticky
DivRound(sign, qr, e) == Round(sign, qr[1], qr[2] # 0, e)

DivTop(sign, ta, tb) ==
    DivRound(sign,
             DivStep(DivStep(DivStep(DivStep(<<ta.M \div tb.M, ta.M % tb.M>>,
                                             tb.M), tb.M), tb.M), tb.M),
             ta.e - tb.e - 28)

Div(a, b) ==
    CASE a.k = "nan" \/ b.k = "nan" -> NaN
      [] a.k = "fin" /\ b.k = "fin" ->
            IF b.m = 0 THEN (IF a.m = 0 THEN NaN ELSE Inf(Sign(a)))
            ELSE IF a.m = 0 THEN Zero
            ELSE DivTop(Sign(a) * Sign(b), Top(a), Top(b))
      [] a.k = "fin" -> Zero                                             \* x / inf
      [] b.k = "fin" -> Inf(Sign(a) * Sign(b))                           \* inf / x
      [] OTHER -> NaN                                                    \* inf / inf

\* a < b for finite a, b: by sign, then by exponent and significand
LtFinite(a, b) ==
    IF a.m < 0 /\ b.m >= 0 THEN TRUE
    ELSE IF a.m >= 0 /\ b.m <= 0 THEN FALSE
    ELSE IF a.m = 0 THEN TRUE
    ELSE IF a.m > 0 THEN a.e < b.e \/ (a.e = b.e /\ a.m < b.m)
    ELSE a.e > b.e \/ (a.e = b.e /\ a.m < b.m)

Lt(a, b) ==
    CASE a.k = "nan" \/ b.k = "nan" -> FALSE
      [] a.k = "ninf" -> b.k # "ninf"
      [] a.k = "pinf" -> FALSE
      [] b.k = "ninf" -> FALSE
      [] b.k = "pinf" -> TRUE
      [] OTHER -> LtFinite(a, b)

Gt(a, b) == Lt(b, a)
Ge(a, b) == a.k # "nan" /\ b.k # "nan" /\ ~Lt(a, b)
IsZero(a) == a.k = "fin" /\ a.m = 0

\* CALIBRATION_TOLERANCE: f32 = 0.9, the f32 nearest to 0.9
CALIBRATION_TOLERANCE == Fin(15099494, -24)

\* a * (1.0 - CALIBRATION_TOLERANCE)
ToleranceMargin(a) == Mul(a, Sub(F(1), CALIBRATION_TOLERANCE))

-----------------------------------------------------------------------------
\* CalibrationStatus

Waiting == [tag |-> "Waiting", last_max_instant |-> 0]
Started(t) == [tag |-> "Started", last_max_instant |-> t]
Complete == [tag |-> "Complete", last_max_instant |-> 0]

\* AppState::new: started is the clock reading t, timer_started the later
\* reading t2
new(time_limit, t, t2) ==
    [ current_db |-> F(0),
      baseline |-> F(0),
      baseline_samples |-> 0,
      baseline_sum |-> F(0),
      last_peak_distance |-> -1,
      started |-> t,
      last_calibrate_max |-> NEG_INFINITY,
      calibration |-> Waiting,
      timer_started |-> t2,
      time_limit |-> time_limit,
      hard_claps |-> 0,
      soft_claps |-> 0 ]

\* Instant::duration_since
duration_since(t, earlier) == IF t >= earlier THEN t - earlier ELSE 0

\* checked_sub giving None already when nothing remains
checked_sub_at_zero(a, b) == IF b >= a THEN -1 ELSE a - b

\* saturating subtraction in place of checked_sub: never None
checked_sub_saturating(a, b) == IF b > a THEN 0 ELSE a - b

\* Duration::checked_sub: None (-1) when the result would be negative
checked_sub(a, b) == IF b > a THEN -1 ELSE a - b

\* is_active without the settle delay
is_active_no_delay(s, t) == duration_since(t, s.started) >= 0

is_active(s, t) == duration_since(t, s.started) > ACTIVE_DELAY

\* calibrate that keeps the instant of the first maximum
calibrate_no_postpone(s, rs) ==
    CASE s.calibration.tag = "Waiting" ->
            [s |-> [s EXCEPT !.calibration = Started(rs[1])], ret |-> FALSE, rs |-> Tail(rs)]
      [] s.calibration.tag = "Started"
         /\ duration_since(rs[1], s.calibration.last_max_instant) > CALIBRATION_COMPLETE_DELAY ->
            [s |-> [s EXCEPT !.calibration = Complete, !.timer_started = rs[2]],
             ret |-> TRUE, rs |-> Tail(Tail(rs))]
      [] s.calibration.tag = "Started"
         /\ ~(duration_since(rs[1], s.calibration.last_max_instant) > CALIBRATION_COMPLETE_DELAY) ->
            IF Gt(s.current_db, s.last_calibrate_max)
            THEN [s |-> [s EXCEPT !.last_calibrate_max = s.current_db],
                  ret |-> FALSE, rs |-> Tail(Tail(rs))]
            ELSE [s |-> s, ret |-> FALSE, rs |-> Tail(rs)]
      [] OTHER -> [s |-> s, ret |-> TRUE, rs |-> rs]

\* calibrate that takes the first tick for the whole calibration
calibrate_skip(s, rs) ==
    CASE s.calibration.tag = "Waiting" ->
            [s |-> [s EXCEPT !.calibration = Complete, !.timer_started = rs[1]],
             ret |-> TRUE, rs |-> Tail(rs)]
      [] OTHER -> [s |-> s, ret |-> TRUE, rs |-> rs]

\* calibrate that counts a tie as a new maximum
calibrate_ties(s, rs) ==
    CASE s.calibration.tag = "Waiting" ->
            [s |-> [s EXCEPT !.calibration = Started(rs[1])], ret |-> FALSE, rs |-> Tail(rs)]
      [] s.calibration.tag = "Started"
         /\ duration_since(rs[1], s.calibration.last_max_instant) > CALIBRATION_COMPLETE_DELAY ->
            [s |-> [s EXCEPT !.calibration = Complete, !.timer_started = rs[2]],
             ret |-> TRUE, rs |-> Tail(Tail(rs))]
      [] s.calibration.tag = "Started"
         /\ ~(duration_since(rs[1], s.calibration.last_max_instant) > CALIBRATION_COMPLETE_DELAY) ->
            IF Ge(s.current_db, s.last_calibrate_max)
            THEN [s |-> [s EXCEPT !.last_calibrate_max = s.current_db,
                                  !.calibration = Started(rs[2])],
                  ret |-> FALSE, rs |-> Tail(Tail(rs))]
            ELSE [s |-> s, ret |-> FALSE, rs |-> Tail(rs)]
      [] OTHER -> [s |-> s, ret |-> TRUE, rs |-> rs]

\* calibrate that still records a maximum on the completing tick
calibrate_compare_on_complete(s, rs) ==
    CASE s.calibration.tag = "Waiting" ->
            [s |-> [s EXCEPT !.calibration = Started(rs[1])], ret |-> FALSE, rs |-> Tail(rs)]
      [] s.calibration.tag = "Started" ->
            LET m == IF Gt(s.current_db, s.last_calibrate_max)
                     THEN s.current_db ELSE s.last_calibrate_max
            IN  IF duration_since(rs[1], s.calibration.last_max_instant)
                       > CALIBRATION_COMPLETE_DELAY
                THEN [s |-> [s EXCEPT !.calibration = Complete, !.timer_started = rs[2],
                                      !.last_calibrate_max = m],
                      ret |-> TRUE, rs |-> Tail(Tail(rs))]
                ELSE IF m # s.last_calibrate_max
                THEN [s |-> [s EXCEPT !.last_calibrate_max = m,
                                      !.calibration = Started(rs[2])],
                      ret |-> FALSE, rs |-> Tail(Tail(rs))]
                ELSE [s |-> s, ret |-> FALSE, rs |-> Tail(rs)]
      [] OTHER -> [s |-> s, ret |-> TRUE, rs |-> rs]

\* AppState::calibrate.  rs holds the clock readings to come, in the order
\* Instant::now() will give them; the result is the state calibrate leaves, the
\* value it returns and the readings it has not taken.  Waiting reads the
\* clock once (the instant kept in Started), Started once for the guard and
\* once more for timer_started or for the instant of a new maximum, Complete
\* never.
calibrate(s, rs) ==
    CASE s.calibration.tag = "Waiting" ->
            [s |-> [s EXCEPT !.calibration = Started(rs[1])], ret |-> FALSE, rs |-> Tail(rs)]
      [] s.calibration.tag = "Started"
         /\ duration_since(rs[1], s.calibration.last_max_instant) > CALIBRATION_COMPLETE_DELAY ->
            [s |-> [s EXCEPT !.calibration = Complete, !.timer_started = rs[2]],
             ret |-> TRUE, rs |-> Tail(Tail(rs))]
      [] s.calibration.tag = "Started"
         /\ ~(duration_since(rs[1], s.calibration.last_max_instant) > CALIBRATION_COMPLETE_DELAY) ->
            IF Gt(s.current_db, s.last_calibrate_max)
            THEN [s |-> [s EXCEPT !.last_calibrate_max = s.current_db,
                                  !.calibration = Started(rs[2])],
                  ret |-> FALSE, rs |-> Tail(Tail(rs))]
            ELSE [s |-> s, ret |-> FALSE, rs |-> Tail(rs)]
      [] OTHER -> [s |-> s, ret |-> TRUE, rs |-> rs]

peak_threshold(s) == Add(s.baseline, F(PEAK_THRESHOLD))

reset_threshold(s) == Sub(peak_threshold(s), F(RESET_THRESHOLD))

\* reset_peak that clears on the loudness alone
reset_peak_no_distance(s) ==
    IF s.last_peak_distance = -1 THEN s
    ELSE LET d == s.last_peak_distance + 1
         IN  IF Lt(s.current_db, reset_threshold(s))
             THEN [s EXCEPT !.last_peak_distance = -1]
             ELSE [s EXCEPT !.last_peak_distance = d]

\* reset_peak that clears as soon as the distance reaches RESET_DISTANCE
reset_peak_at_distance(s) ==
    IF s.last_peak_distance = -1 THEN s
    ELSE LET d == s.last_peak_distance + 1
         IN  IF d >= RESET_DISTANCE /\ Lt(s.current_db, reset_threshold(s))
             THEN [s EXCEPT !.last_peak_distance = -1]
             ELSE [s EXCEPT !.last_peak_distance = d]

\* reset_peak that restarts the baseline warm-up when it clears
reset_peak_rebaseline(s) ==
    IF s.last_peak_distance = -1 THEN s
    ELSE LET d == s.last_peak_distance + 1
         IN  IF d > RESET_DISTANCE /\ Lt(s.current_db, reset_threshold(s))
             THEN [s EXCEPT !.last_peak_distance = -1, !.baseline = F(0),
                            !.baseline_samples = 0, !.baseline_sum = F(0)]
             ELSE [s EXCEPT !.last_peak_distance = d]

reset_peak(s) ==
    IF s.last_peak_distance = -1 THEN s
    ELSE LET d == s.last_peak_distance + 1
         IN  IF d > RESET_DISTANCE /\ Lt(s.current_db, reset_threshold(s))
             THEN [s EXCEPT !.last_peak_distance = -1]
             ELSE [s EXCEPT !.last_peak_distance = d]

\* detect_peak that tests the entry threshold before the debounce counter
detect_peak_threshold_first(s) ==
    IF Gt(s.current_db, peak_threshold(s))
    THEN [s |-> [s EXCEPT !.last_peak_distance = 0], ret |-> TRUE]
    ELSE [s |-> reset_peak(s), ret |-> FALSE]

detect_peak(s) ==
    IF s.last_peak_distance # -1
    THEN [s |-> reset_peak(s), ret |-> FALSE]
    ELSE IF Gt(s.current_db, peak_threshold(s))
         THEN [s |-> [s EXCEPT !.last_peak_distance = 0], ret |-> TRUE]
         ELSE [s |-> s, ret |-> FALSE]

\* hard_threshold taking the tolerance itself as the margin
hard_threshold_no_complement(s) ==
    Sub(s.last_calibrate_max, Mul(Sub(s.last_calibrate_max, s.baseline), CALIBRATION_TOLERANCE))

hard_threshold(s) ==
    Sub(s.last_calibrate_max, ToleranceMargin(Sub(s.last_calibrate_max, s.baseline)))

\* classification that counts a hard burst as a soft one too
classify_both(s, threshold) ==
    IF Ge(s.current_db, threshold)
    THEN [s EXCEPT !.hard_claps = @ + 1, !.soft_claps = @ + 1]
    ELSE [s EXCEPT !.soft_claps = @ + 1]

\* the classification of a freshly registered burst
classify(s, threshold) ==
    IF Ge(s.current_db, threshold)
    THEN [s EXCEPT !.hard_claps = @ + 1]
    ELSE [s EXCEPT !.soft_claps = @ + 1]

\* The end of an iteration: p is what detect_peak gave, and a registered
\* burst is counted against threshold.
counted(p, threshold) == IF p.ret THEN classify(p.s, threshold) ELSE p.s

\* An iteration from the deadline test on, in the state s calibrate has left,
\* with `remaining` of the time limit left (-1 for None) and `taken` clock
\* readings taken.
timed(s, remaining, taken) ==
    IF remaining = -1 THEN [s |-> s, returned |-> TRUE, taken |-> taken]
    ELSE [s |-> counted(detect_peak(s), hard_threshold(s)),
          returned |-> FALSE, taken |-> taken]

\* An iteration from the test of calibrate's result on: c is what calibrate
\* gave, rs the readings of the iteration.
calibrated(c, rs) ==
    IF ~c.ret THEN [s |-> c.s, returned |-> FALSE, taken |-> Len(rs) - Len(c.rs)]
    ELSE timed(c.s,
               checked_sub(c.s.time_limit,
                           duration_since(rs[Len(rs) - Len(c.rs) + 1], c.s.timer_started)),
               Len(rs) - Len(c.rs) + 1)

\* One iteration of the loop of run() after the sleep.  The iteration holds
\* the lock throughout and reads the clock up to four times: in is_active, up
\* to twice in calibrate, and for the elapsed time; rs holds these readings in
\* order.  The result is the state the iteration leaves, whether the function
\* returned, and the number of readings it took.
loop_body(s, rs) ==
    IF ~is_active(s, rs[1]) THEN [s |-> s, returned |-> FALSE, taken |-> 1]
    ELSE calibrated(calibrate(s, Tail(rs)), rs)

\* process_audio up to the zero test: the loudness stored, and taken as the
\* baseline too when the baseline is 0.0
seeded(s, db) ==
    IF IsZero(s.baseline) THEN [s EXCEPT !.current_db = db, !.baseline = db]
    ELSE [s EXCEPT !.current_db = db]

\* the warm-up branch, with the new count n and the new sum
warm_up(s, n, sum) ==
    [s EXCEPT !.baseline_samples = n, !.baseline_sum = sum, !.baseline = Div(sum, F(n))]

\* the branch past the warm-up window
moving_average(s, db) ==
    [s EXCEPT !.baseline =
        Div(Add(Mul(s.baseline, F(BASELINE_WINDOW - 1)), db), F(BASELINE_WINDOW))]

\* process_audio whose warm-up mean is updated from the previous baseline
process_audio_incremental(s, db) ==
    IF s.baseline_samples < BASELINE_WINDOW
    THEN [seeded(s, db) EXCEPT
            !.baseline_samples = @ + 1,
            !.baseline_sum = Add(@, db),
            !.baseline = Div(Add(Mul(@, F(s.baseline_samples)), db),
                             F(s.baseline_samples + 1))]
    ELSE moving_average(seeded(s, db), db)

\* process_audio, for a block of loudness db (20 log10 rms, or -inf when rms = 0)
process_audio(s, db) ==
    IF s.baseline_samples < BASELINE_WINDOW
    THEN warm_up(seeded(s, db), s.baseline_samples + 1, Add(s.baseline_sum, db))
    ELSE moving_average(seeded(s, db), db)

-----------------------------------------------------------------------------
\* History kept beside the program's state.

NoReport == [printed |-> FALSE, hard |-> 0, soft |-> 0]

\* The loudness values ingested so far, as their exact sum: the sum of the
\* finite ones in units of 2^-22 dB, of which every finite loudness value of
\* the model is a whole number, and whether a -inf and a +inf block were
\* among them.
NoneHeard == [total |-> 0, ninf |-> FALSE, pinf |-> FALSE]

Units(db) == db.m * Pow2(db.e + 22)

Hear(h, db) ==
    CASE db.k = "ninf" -> [h EXCEPT !.ninf = TRUE]
      [] db.k = "pinf" -> [h EXCEPT !.pinf = TRUE]
      [] OTHER -> [h EXCEPT !.total = @ + Units(db)]

\* the value of pending while the audio callback is not running
NoBlock == F(0)

\* the fields process_audio assigns
EstimatorFields(s) == <<s.current_db, s.baseline, s.baseline_samples, s.baseline_sum>>

InitHist ==
    [entered_at |-> -1, newmax_at |-> -1, age |-> 0, registered |-> 0,
     quiet_run |-> 0, silence_at |-> -1,
     committed |-> EstimatorFields(new(0, 0, 0))]

\* what a tick that takes s to s2 and reads the clock as t at last adds to
\* the history
TickHist(h, s, s2, t) ==
    [ entered_at |-> IF s.calibration.tag = "Waiting" /\ s2.calibration.tag # "Waiting"
                     THEN t ELSE h.entered_at,
      newmax_at |-> IF s2.last_calibrate_max # s.last_calibrate_max THEN t ELSE h.newmax_at,
      age |-> IF s.last_peak_distance = -1 THEN 0 ELSE h.age + 1,
      registered |-> IF s.last_peak_distance = -1 /\ s2.last_peak_distance # -1
                     THEN h.registered + 1 ELSE h.registered,
      quiet_run |-> IF s.last_peak_distance # -1 /\ Lt(s.current_db, reset_threshold(s))
                    THEN (IF h.quiet_run < RESET_DISTANCE THEN h.quiet_run + 1
                          ELSE RESET_DISTANCE)
                    ELSE 0,
      silence_at |-> h.silence_at,
      committed |-> h.committed ]

\* what the ingest of a block of loudness db in state s adds to the history:
\* the bursts counted when the first silent block arrived, and the estimator
\* fields as the completed ingest leaves them
IngestHist(h, s, db) ==
    [h EXCEPT !.silence_at = IF db = NEG_INFINITY /\ h.silence_at = -1
                             THEN s.hard_claps + s.soft_claps ELSE @,
              !.committed = EstimatorFields(process_audio(s, db))]

-----------------------------------------------------------------------------
\* The loudness values of the audio blocks: 20 log10 of the rms of a block of
\* f32 samples.  -inf is the loudness of a silent or empty block, +inf that of
\* a block whose sum of squares overflows (a sample of 1e20); -60 dB is the
\* loudness of the one-sample block 0x3a83126d and Near3dB, -3.1578956 dB
\* (0xc04a1af6), that of the one-sample block 0x3f31f827, with the log10f of
\* glibc 2.36.
Near3dB == Fin(-13245174, -22)

Loudness == {NEG_INFINITY, INFINITY, F(-60), Near3dB}

\* The time limit, in seconds: Duration::from_secs_f32(m * 60.0) for the m > 0
\* the operator enters, which is 0 for a small m; the shortest and the
\* longest limit are followed.
TimeLimits == {0, MaxLimit}

\* The clock readings of AppState::new: started is read at 0 and
\* timer_started up to a second later.
StartGaps == {0, 1}

Init ==
    /\ \E limit \in TimeLimits, t2 \in StartGaps :
          /\ now = t2
          /\ state = new(limit, 0, t2)
    /\ run = "Running"
    /\ report = NoReport
    /\ blocks = 0
    /\ heard = NoneHeard
    /\ hist = InitHist
    /\ lock = "none"
    /\ pc = [loop |-> "sleep", audio |-> "idle"]
    /\ pending = NoBlock

\* time passes
Advance ==
    /\ run = "Running"
    /\ now < MaxTime
    /\ now' = now + 1
    /\ UNCHANGED <<state, run, report, blocks, heard, hist, threads>>

\* what an iteration of the loop that gives r and reads the clock as t at last
\* does to the clock, the state, the run and the history
Outcome(r, t, capped) ==
    /\ capped => r.s.last_peak_distance <= MaxDistance
    /\ now' = t
    /\ state' = r.s
    /\ run' = IF r.returned THEN "TimedOut" ELSE "Running"
    /\ report' = IF r.returned
                 THEN [printed |-> TRUE, hard |-> r.s.hard_claps, soft |-> r.s.soft_claps]
                 ELSE report
    /\ hist' = TickHist(hist, state, r.s, t)

\* one iteration of the loop with the clock readings rs; r is what it gives
Taken(r, rs, capped) == Outcome(r, rs[r.taken], capped)

Iterate(rs, capped) == Taken(loop_body(state, rs), rs, capped)

\* The clock readings of an iteration of the loop in state s that starts at
\* clock reading t: four readings in order, each at most gap later than the
\* one before and none later than hi.  How many of them the iteration takes is
\* settled by the first two; the readings it does not take repeat the last
\* one it takes.
Upto(t, gap, hi) == t..(IF t + gap < hi THEN t + gap ELSE hi)

ReadingsFrom(t, t2, n, gap, hi) ==
    UNION { { <<t, t2, t3, t4>> : t4 \in IF n > 3 THEN Upto(t3, gap, hi) ELSE {t3} }
          : t3 \in IF n > 2 THEN Upto(t2, gap, hi) ELSE {t2} }

Readings(s, t, gap, hi) ==
    UNION { ReadingsFrom(t, t2, loop_body(s, <<t, t2, t2, t2>>).taken, gap, hi)
          : t2 \in IF is_active(s, t) THEN Upto(t, gap, hi) ELSE {t} }

\* the control loop wakes up, takes the lock and runs one iteration, the
\* clock moving on between its readings
Tick ==
    /\ run = "Running"
    /\ \E rs \in Readings(state, now, MaxTime, MaxTime) : Iterate(rs, TRUE)
    /\ UNCHANGED <<blocks, heard, threads>>

\* the audio callback delivers a block of loudness db; the stream lives to
\* the end of run, so a block can arrive after the loop has returned
Ingest(db) ==
    /\ state' = process_audio(state, db)
    /\ blocks' = blocks + 1
    /\ heard' = Hear(heard, db)
    /\ hist' = IngestHist(hist, state, db)
    /\ UNCHANGED <<now, run, report, threads>>

AudioCallback == \E db \in Loudness : blocks < MaxIngest /\ Ingest(db)

Next == Advance \/ Tick \/ AudioCallback

Spec == Init /\ [][Next]_vars

\* The estimator alone, through the warm-up window and past it.
\* -6 dB is the loudness of the one-sample block 0x3f004dce, 0 dB that of a
\* block of full-scale samples.
WarmupLoudness == {NEG_INFINITY, INFINITY, F(-6), F(0)}

LongCallback == \E db \in WarmupLoudness : blocks < MaxBlocks /\ Ingest(db)

\* the time limit plays no part in the estimator
InitBaseline == Init /\ state.time_limit = 0

SpecBaseline == InitBaseline /\ [][LongCallback]_vars

\* The scenario of a calibrated run at baseline 0: the audio blocks arrive in
\* this order, the ticks and the clock interleave freely.
Script == <<F(20), F(-20), F(-19), F(19), F(-10), F(10), F(-16), F(16)>>

ScriptedCallback == blocks < Len(Script) /\ Ingest(Script[blocks + 1])

SpecScenario == Init /\ [][Advance \/ Tick \/ ScriptedCallback]_vars

\* The two threads step by step.  The control loop sleeps, takes the lock,
\* runs the body of one iteration, println! included, and drops the guard at
\* the end of the iteration; the audio callback takes the lock, stores the
\* loudness of its block, folds it into the baseline and drops the guard.

\* Mutex::lock succeeds only while nobody holds the lock
try_lock_unguarded(holder) == TRUE

try_lock(holder) == holder = "none"

\* whether the iteration that takes s to s2 writes to the console: the two
\* calibration messages, the line of a counted burst, the final summary
prints(s, s2, returned) ==
    \/ s.calibration.tag # s2.calibration.tag
    \/ s.last_peak_distance = -1 /\ s2.last_peak_distance = 0
    \/ returned

LockLoudness == {NEG_INFINITY, F(-60), Near3dB}

LoopWake ==
    /\ run = "Running"
    /\ pc.loop = "sleep"
    /\ pc' = [pc EXCEPT !.loop = "lock"]
    /\ UNCHANGED <<state, now, run, report, blocks, heard, hist, lock, pending>>

LoopAcquire ==
    /\ pc.loop = "lock"
    /\ try_lock(lock)
    /\ lock' = "loop"
    /\ pc' = [pc EXCEPT !.loop = "body"]
    /\ UNCHANGED <<state, now, run, report, blocks, heard, hist, pending>>

\* where the loop goes after the body: to its println! with the guard held
\* when the iteration writes to the console, else to the sleep, the guard
\* dropped
LoopOut(out) ==
    /\ pc' = [pc EXCEPT !.loop = IF out THEN "print" ELSE "sleep"]
    /\ lock' = IF out THEN lock ELSE "none"

\* the loop body with the clock readings rs; r is what it gives
LoopTaken(r, rs) ==
    /\ Taken(r, rs, TRUE)
    /\ LoopOut(prints(state, r.s, r.returned))

\* the loop body up to its println!, or to the end of the iteration
LoopIterate ==
    /\ pc.loop = "body"
    /\ \E rs \in Readings(state, now, MaxTime, MaxTime) :
          LoopTaken(loop_body(state, rs), rs)
    /\ UNCHANGED <<blocks, heard, pending>>

\* println! returns; the guard is dropped at the end of the iteration
LoopPrinted ==
    /\ pc.loop = "print"
    /\ pc' = [pc EXCEPT !.loop = IF run = "TimedOut" THEN "done" ELSE "sleep"]
    /\ lock' = "none"
    /\ UNCHANGED <<state, now, run, report, blocks, heard, hist, pending>>

AudioCall(db) ==
    /\ pc.audio = "idle"
    /\ blocks < MaxLiveIngest
    /\ pc' = [pc EXCEPT !.audio = "lock"]
    /\ pending' = db
    /\ UNCHANGED <<state, now, run, report, blocks, heard, hist, lock>>

AudioAcquire ==
    /\ pc.audio = "lock"
    /\ try_lock(lock)
    /\ lock' = "audio"
    /\ pc' = [pc EXCEPT !.audio = "store"]
    /\ UNCHANGED <<state, now, run, report, blocks, heard, hist, pending>>

\* state_lock.current_db = db
AudioStore ==
    /\ pc.audio = "store"
    /\ state' = [state EXCEPT !.current_db = pending]
    /\ pc' = [pc EXCEPT !.audio = "fold"]
    /\ UNCHANGED <<now, run, report, blocks, heard, hist, lock, pending>>

\* the baseline update; the guard is dropped on return
AudioFold ==
    /\ pc.audio = "fold"
    /\ state' = process_audio(state, pending)
    /\ blocks' = blocks + 1
    /\ heard' = Hear(heard, pending)
    /\ hist' = IngestHist(hist, state, pending)
    /\ lock' = "none"
    /\ pc' = [pc EXCEPT !.audio = "idle"]
    /\ pending' = NoBlock
    /\ UNCHANGED <<now, run, report>>

AudioThread ==
    \/ \E db \in LockLoudness : AudioCall(db)
    \/ AudioAcquire
    \/ AudioStore
    \/ AudioFold

LoopThread == LoopWake \/ LoopAcquire \/ LoopIterate \/ LoopPrinted

SpecLock == Init /\ [][Advance \/ LoopThread \/ AudioThread]_vars

\* The two threads as they run, with no end to the audio.  thread::sleep
\* returns after 0 or 1 s, the clock moves on by at most a second from one
\* reading of the loop body to the next, and the callback is called at any
\* moment, between the sleep and the lock as well, as often as the device
\* likes, with a block of full-scale samples (0 dB) or one whose sum of
\* squares overflows (+inf).  Either thread runs its critical section in one
\* step.  The blocks are not counted here, and none of them registers a
\* burst: the baseline a +inf block leaves is +inf.
SleepTimes == {0, 1}

LiveLoudness == {F(0), INFINITY}

\* how often last_calibrate_max can rise: once for every loudness above -inf
\* that current_db can hold, the initial 0.0 included
MaxMaxima == Cardinality((LiveLoudness \cup {F(0)}) \ {NEG_INFINITY})

\* The latest clock reading of a run, with four seconds to spare.  The loop
\* enters Started by ACTIVE_DELAY + 2; every new maximum is recorded at most
\* CALIBRATION_COMPLETE_DELAY + 1 after the one before; the quiet period is
\* found over and the timer started at most CALIBRATION_COMPLETE_DELAY + 3
\* after the last one; the run returns at most MaxLimit + 2 after that.  An
\* iteration moves the clock by at most four seconds, one in the sleep and
\* one before each of three readings.
Horizon ==
    (ACTIVE_DELAY + 2) + MaxMaxima * (CALIBRATION_COMPLETE_DELAY + 1)
        + (CALIBRATION_COMPLETE_DELAY + 3) + (MaxLimit + 2) + 4

\* thread::sleep returns after d seconds
LiveWake(d) ==
    /\ run = "Running"
    /\ pc.loop = "sleep"
    /\ now + d <= Horizon
    /\ now' = now + d
    /\ pc' = [pc EXCEPT !.loop = "lock"]
    /\ UNCHANGED <<state, run, report, blocks, heard, hist, lock, pending>>

\* state.lock() returns and the body runs to the end of the iteration, the
\* guard held throughout
LiveTick ==
    /\ pc.loop = "lock"
    /\ try_lock(lock)
    /\ \E rs \in Readings(state, now, 1, Horizon) : Iterate(rs, FALSE)
    /\ pc' = [pc EXCEPT !.loop = IF run' = "TimedOut" THEN "done" ELSE "sleep"]
    /\ UNCHANGED <<blocks, heard, lock, pending>>

LiveLoop == (\E d \in SleepTimes : LiveWake(d)) \/ LiveTick

\* the callback takes the lock and runs process_audio to its end
LiveIngest(db) ==
    /\ try_lock(lock)
    /\ state' = process_audio(state, db)
    /\ hist' = IngestHist(hist, state, db)
    /\ UNCHANGED <<now, run, report, blocks, heard, threads>>

LiveCallback == \E db \in LiveLoudness : LiveIngest(db)

LiveNext == LiveLoop \/ LiveCallback

\* Time keeps advancing and the loop keeps ticking.  Only the sleep and the
\* body of the loop move the clock here, so weak fairness of the clock is
\* both: the sleep returns, the loop gets the lock and the body runs, again
\* and again, with time passing.
LiveClock == run = "Running" /\ now' \in (now + 1)..Horizon

SpecLive == Init /\ [][LiveNext]_vars /\ WF_now(LiveClock)

-----------------------------------------------------------------------------
\* Properties.

Idle == state.last_peak_distance = -1
Registers == state.last_peak_distance = -1 /\ state'.last_peak_distance = 0
\* the elapsed time an iteration that gets past calibrate reads
Elapsed == duration_since(now', state'.timer_started)

\* C1 (debounce): while Peak is Active, that is from the tick that registered
\* a burst until a tick sets last_peak_distance back to -1, no step registers
\* another burst and neither counter changes.
C1_Debounce ==
    [][~Idle => /\ state'.last_peak_distance \in
                      {state.last_peak_distance, state.last_peak_distance + 1, -1}
                /\ state'.hard_claps = state.hard_claps
                /\ state'.soft_claps = state.soft_claps]_vars

\* Peak has stayed Active over several ticks with the loudness still above the
\* peak threshold, and one burst is counted.
C1_Witness ==
    /\ state.last_peak_distance >= 3
    /\ Gt(state.current_db, peak_threshold(state))
    /\ state.hard_claps + state.soft_claps = 1

\* 0.1 as an f32
OneTenth == Fin(13421773, -27)

\* C2 (classification): a tick that registers a burst increments exactly one
\* counter by 1: hard_claps when L >= M - 0.1 (M - B), soft_claps when L is
\* strictly below it (M, B, L as read on that tick).
C2_Classification ==
    [][Registers =>
        LET M == state.last_calibrate_max
            B == state.baseline
            L == state.current_db
            T == Sub(M, Mul(OneTenth, Sub(M, B)))
            hard == state'.hard_claps - state.hard_claps
            soft == state'.soft_claps - state.soft_claps
        IN  /\ <<hard, soft>> \in {<<1, 0>>, <<0, 1>>}
            /\ Ge(L, T) => hard = 1
            /\ Lt(L, T) => soft = 1]_vars

\* C3 as stated (deadline, equality included): a tick that finds calibration
\* Complete and reads elapsed >= time_limit terminates the run.
C3_DeadlineAtEquality ==
    [][(Tick /\ state'.calibration.tag = "Complete" /\ Elapsed >= state.time_limit)
        => run' = "TimedOut"]_vars

\* C3 amended (deadline): a tick that gets past calibration terminates the
\* run exactly when the elapsed time it reads is > time_limit (at equality it
\* goes on to peak detection); the terminating tick registers and counts
\* nothing and reports the counters as they were before it, and nothing is
\* counted after it.
C3_Deadline ==
    /\ [][(Tick /\ state'.calibration.tag = "Complete")
            => (run' = "TimedOut" <=> Elapsed > state.time_limit)]_vars
    /\ [][run' = "TimedOut" =>
            /\ Elapsed > state.time_limit
            /\ state'.last_peak_distance = state.last_peak_distance
            /\ state'.hard_claps = state.hard_claps
            /\ state'.soft_claps = state.soft_claps
            /\ report' = [printed |-> TRUE, hard |-> state.hard_claps,
                          soft |-> state.soft_claps]]_vars
    /\ [](run = "TimedOut" =>
            /\ report.printed
            /\ report.hard = state.hard_claps
            /\ report.soft = state.soft_claps)

\* The run has timed out and reported a burst counted before the deadline.
C3_Witness == run = "TimedOut" /\ report.printed /\ report.hard + report.soft >= 1

Max(a, b) == IF a >= b THEN a ELSE b

\* C4 (quiet period): calibration moves from Started to Complete only when
\* more than the quiet period has elapsed since the later of the entry into
\* Started and the last tick that recorded a new maximum; the moment of the
\* move is the one kept as timer_started.
C4_QuietPeriod ==
    [][(state.calibration.tag = "Started" /\ state'.calibration.tag = "Complete")
        => state'.timer_started - Max(hist.entered_at, hist.newmax_at)
              > CALIBRATION_COMPLETE_DELAY]_vars

\* Calibration has completed after a maximum recorded later than the entry
\* into Started.
C4_Witness ==
    /\ state.calibration.tag = "Complete"
    /\ hist.newmax_at > hist.entered_at

\* C5 (calibration order): the calibration state changes only Waiting ->
\* Started and Started -> Complete; calibrate reports not-calibrated when it
\* leaves Waiting and when it stays in Started, and calibrated once Complete,
\* which it leaves unchanged.
C5_CalibrationOrder ==
    /\ [][\/ state'.calibration.tag = state.calibration.tag
          \/ state.calibration.tag = "Waiting" /\ state'.calibration.tag = "Started"
          \/ state.calibration.tag = "Started" /\ state'.calibration.tag = "Complete"]_vars
    /\ [](\A t \in now..MaxTime : \A t2 \in t..MaxTime :
            LET c == calibrate(state, <<t, t2>>)
            IN  /\ state.calibration.tag = "Waiting"
                     => c.s.calibration.tag = "Started" /\ ~c.ret
                /\ state.calibration.tag = "Started"
                     => /\ c.s.calibration.tag \in {"Started", "Complete"}
                        /\ c.ret <=> c.s.calibration.tag = "Complete"
                /\ state.calibration.tag = "Complete" => c.s = state /\ c.ret)

\* Calibration went all the way to Complete while audio blocks were ingested.
C5_Witness ==
    /\ state.calibration.tag = "Complete"
    /\ hist.entered_at >= 0
    /\ blocks > 0

\* C6 (return to Idle): a tick sets last_peak_distance back to -1 only if at
\* least 8 ticks have elapsed since the registering tick and the loudness is
\* strictly below baseline + 15 - 4.
C6_ResetConditions ==
    [][(~Idle /\ state'.last_peak_distance = -1) =>
        /\ hist'.age >= 8
        /\ Lt(state.current_db, Sub(Add(state.baseline, F(15)), F(4)))]_vars

\* Peak has just returned to Idle after a registered burst.
C6_Witness == Idle /\ hist.registered >= 1 /\ hist.age >= 8

\* the sum of the loudness values ingested so far, as an f32
SumHeard ==
    CASE heard.ninf /\ heard.pinf -> NaN
      [] heard.ninf /\ ~heard.pinf -> NEG_INFINITY
      [] heard.pinf /\ ~heard.ninf -> INFINITY
      [] OTHER -> Round(IF heard.total < 0 THEN -1 ELSE 1, Abs(heard.total), FALSE, -22)

\* C7 (warm-up baseline): after the n-th block, 1 <= n <= 50, baseline is the
\* arithmetic mean of the n loudness values ingested, baseline_samples is n
\* and baseline_sum is their sum.
C7_WarmupMean ==
    (1 <= blocks /\ blocks <= 50) =>
        /\ state.baseline_samples = blocks
        /\ state.baseline_sum = SumHeard
        /\ state.baseline = Div(SumHeard, F(blocks))

\* The window is full and the mean of its loudness values is no whole number.
C7_Witness ==
    /\ blocks = 50
    /\ state.baseline_samples = 50
    /\ state.baseline.k = "fin"
    /\ state.baseline.e < 0
    /\ state.baseline.m % Pow2(-state.baseline.e) # 0

\* C8 (moving average): every block after the 50th leaves
\* baseline = (previous baseline * 49 + loudness) / 50.
C8_MovingAverage ==
    [][(blocks >= 50 /\ blocks' = blocks + 1) =>
        state'.baseline = Div(Add(Mul(state.baseline, F(49)), state'.current_db), F(50))]_vars

CalibratedAtZero ==
    /\ state.calibration.tag = "Complete"
    /\ state.baseline = F(0)
    /\ state.last_calibrate_max = F(20)
    /\ Elapsed <= state.time_limit

\* C9 as stated (scenario): at baseline 0 and maximum 20, after Peak has
\* returned to Idle, a tick with loudness 10 registers a burst classified soft.
C9_SoftAtTen ==
    [][(Tick /\ CalibratedAtZero /\ Idle /\ hist.registered >= 1
        /\ state.current_db = F(10))
        => Registers /\ state'.soft_claps = state.soft_claps + 1]_vars

\* C9 amended (scenario): at baseline 0 and maximum 20 the hard threshold is
\* 18; a tick in Idle with loudness 19 registers a burst classified hard, one
\* with loudness 10 registers nothing, one with loudness 16 registers a burst
\* classified soft.
C9_Scenario ==
    [][(Tick /\ CalibratedAtZero /\ Idle) =>
        /\ hard_threshold(state) = F(18)
        /\ state.current_db = F(19) =>
              /\ Registers
              /\ state'.hard_claps = state.hard_claps + 1
              /\ state'.soft_claps = state.soft_claps
        /\ state.current_db = F(10) => state' = state
        /\ state.current_db = F(16) =>
              /\ Registers
              /\ state'.soft_claps = state.soft_claps + 1
              /\ state'.hard_claps = state.hard_claps]_vars

\* The burst at 19 was counted hard and the burst at 16 has just been counted
\* soft.
C9_Witness ==
    /\ state.baseline = F(0)
    /\ state.last_calibrate_max = F(20)
    /\ state.current_db = F(16)
    /\ state.last_peak_distance = 0
    /\ state.hard_claps = 1
    /\ state.soft_claps = 1

\* C10 (ties): a tick in Started whose loudness is not above
\* last_calibrate_max leaves last_calibrate_max as it is, leaves
\* last_max_instant as it is while calibration stays Started, and completes
\* calibration once more than the quiet period has elapsed.
C10_Ties ==
    [][(Tick /\ state.calibration.tag = "Started"
        /\ ~Gt(state.current_db, state.last_calibrate_max)) =>
        /\ state'.last_calibrate_max = state.last_calibrate_max
        /\ state'.calibration.tag = "Started"
              => state'.calibration.last_max_instant = state.calibration.last_max_instant
        /\ now - state.calibration.last_max_instant > CALIBRATION_COMPLETE_DELAY
              => state'.calibration.tag = "Complete"]_vars

\* Calibration completed on a tick whose loudness tied the maximum, which was
\* recorded more than a quiet period before.
C10_Witness ==
    /\ state.calibration.tag = "Complete"
    /\ state.current_db = state.last_calibrate_max
    /\ hist.newmax_at >= 0
    /\ state.timer_started - hist.newmax_at > CALIBRATION_COMPLETE_DELAY
    /\ blocks > 0

Counted == state.hard_claps + state.soft_claps

\* C11 (counters): hard_claps and soft_claps start at 0, never decrease and
\* change only on a tick that takes Peak from Idle to Active, which adds 1 to
\* their sum; the sum is the number of Idle -> Active transitions so far.
C11_Counters ==
    /\ state.hard_claps = 0 /\ state.soft_claps = 0
    /\ [](Counted = hist.registered)
    /\ [][/\ state'.hard_claps >= state.hard_claps
          /\ state'.soft_claps >= state.soft_claps
          /\ Counted' # Counted => Tick /\ Registers
          /\ Registers => Counted' = Counted + 1]_vars

\* A burst was counted and the count has been kept through the return to Idle.
C11_Witness == Idle /\ hist.registered = 1 /\ Counted = 1 /\ blocks = MaxIngest

\* C14 (gating): Peak is Active or a counter is non-zero only when calibration
\* is Complete, and a tick earlier than the settle delay after the start
\* changes nothing.
C14_Gating ==
    /\ []((~Idle \/ state.hard_claps # 0 \/ state.soft_claps # 0)
            => state.calibration.tag = "Complete")
    /\ [][(Tick /\ duration_since(now, state.started) < ACTIVE_DELAY)
            => state' = state /\ run' = run]_vars

\* A burst is being debounced after calibration completed.
C14_Witness ==
    /\ ~Idle
    /\ Counted >= 1
    /\ state.calibration.tag = "Complete"
    /\ hist.entered_at > state.started + ACTIVE_DELAY

ClassifierFields(s) ==
    <<s.calibration, s.last_calibrate_max, s.last_peak_distance, s.hard_claps,
      s.soft_claps, s.started, s.timer_started, s.time_limit>>

\* C15 (ownership): an audio ingest leaves calibration, last_calibrate_max,
\* last_peak_distance, the counters and the timers unchanged; every other
\* step, a tick in particular, leaves current_db, baseline, baseline_samples
\* and baseline_sum unchanged.
C15_Ownership ==
    [][/\ blocks' # blocks => ClassifierFields(state') = ClassifierFields(state)
       /\ blocks' = blocks => EstimatorFields(state') = EstimatorFields(state)]_vars

\* Audio blocks were ingested and ticks have calibrated, registered a burst
\* and cleared it.
C15_Witness ==
    /\ blocks = MaxIngest
    /\ hist.registered >= 1
    /\ Idle
    /\ state.baseline.k = "fin"

\* C16 (silence): the baseline is never NaN, and with a current loudness of
\* -inf detect_peak registers no burst, whatever the debounce counter.
C16_Silence ==
    /\ state.baseline.k # "nan"
    /\ state.current_db = NEG_INFINITY =>
          \A d \in -1..MaxDistance :
              ~detect_peak([state EXCEPT !.last_peak_distance = d]).ret

\* C17 as stated (consecutive quiet ticks): last_peak_distance returns to -1
\* only once the loudness has been below the reset threshold on at least 8
\* consecutive ticks.
C17_EightQuietTicks ==
    [][(~Idle /\ state'.last_peak_distance = -1) => hist'.quiet_run >= 8]_vars

\* C17 amended (debounce counter): while Peak is Active a peak-detection tick
\* either adds 1 to last_peak_distance or sets it to -1, the latter only when
\* the incremented distance is above 8 and the loudness on that tick is below
\* baseline + 15 - 4; no other step touches it.
C17_DistanceCounter ==
    [][~Idle =>
        IF Tick /\ run' = "Running"
        THEN \/ state'.last_peak_distance = state.last_peak_distance + 1
             \/ /\ state'.last_peak_distance = -1
                /\ state.last_peak_distance + 1 > RESET_DISTANCE
                /\ Lt(state.current_db, reset_threshold(state))
        ELSE state'.last_peak_distance = state.last_peak_distance]_vars

\* Peak returned to Idle on the first tick on which the loudness was below the
\* reset threshold.
C17_Witness == Idle /\ hist.registered >= 1 /\ hist.age >= 9 /\ hist.quiet_run = 1

\* C19 (silence is absorbing): once a silent block has been ingested the
\* baseline is -inf and stays -inf over every later block.
C19_BaselineMinusInf ==
    hist.silence_at >= 0 =>
        /\ state.baseline = NEG_INFINITY
        /\ \A db \in Loudness : process_audio(state, db).baseline = NEG_INFINITY

\* C20 (calibration result is final): once calibration is Complete,
\* last_calibrate_max and timer_started do not change; timer_started changes
\* only on the tick that takes calibration from Started to Complete, which
\* sets it to a clock reading of that tick and leaves last_calibrate_max as it was.
C20_CalibrationFinal ==
    [][/\ state.calibration.tag = "Complete" =>
             /\ state'.last_calibrate_max = state.last_calibrate_max
             /\ state'.timer_started = state.timer_started
       /\ state'.timer_started # state.timer_started =>
             /\ state.calibration.tag = "Started"
             /\ state'.calibration.tag = "Complete"
             /\ state'.timer_started \in now..now'
       /\ (state.calibration.tag = "Started" /\ state'.calibration.tag = "Complete") =>
             state'.last_calibrate_max = state.last_calibrate_max]_vars

\* Calibration completed on a tick whose loudness was above the recorded
\* maximum.
C20_Witness ==
    /\ state.calibration.tag = "Complete"
    /\ state.timer_started = now
    /\ Gt(state.current_db, state.last_calibrate_max)
    /\ Idle /\ Counted = 0 /\ blocks > 0

\* C18 (termination): when time keeps advancing and the loop keeps ticking,
\* calibration eventually is Complete and the run eventually is TimedOut with
\* the final totals reported, whatever blocks the callback ingests in between
\* and however many; no clock reading of a run comes within an iteration of
\* Horizon.
C18_Termination ==
    /\ [](now + 4 <= Horizon)
    /\ <>(state.calibration.tag = "Complete")
    /\ <>[](/\ run = "TimedOut"
            /\ report.printed
            /\ report.hard = state.hard_claps
            /\ report.soft = state.soft_claps)

\* The run timed out after the callback had filled the warm-up window and a
\* second maximum, the loudness of a +inf block, had postponed the end of
\* calibration.
C18_Witness ==
    /\ run = "TimedOut"
    /\ state.baseline_samples = BASELINE_WINDOW
    /\ state.last_calibrate_max = INFINITY
    /\ hist.newmax_at >= hist.entered_at + CALIBRATION_COMPLETE_DELAY + 1

InCritical(thread) ==
    IF thread = "loop" THEN pc.loop \in {"body", "print"}
    ELSE pc.audio \in {"store", "fold"}

\* C12 (mutual exclusion): the loop and the audio callback are never inside
\* their critical sections together, the lock is held by the thread that is
\* inside, and an iteration of the loop body reads current_db, baseline,
\* baseline_samples and baseline_sum as the last completed ingest left them.
C12_MutualExclusion ==
    /\ ~(InCritical("loop") /\ InCritical("audio"))
    /\ lock = "loop" <=> InCritical("loop")
    /\ lock = "audio" <=> InCritical("audio")
    /\ pc.loop = "body" => EstimatorFields(state) = hist.committed

\* The loop waits for the lock while the audio callback has stored the
\* loudness of its block and not yet folded it into the baseline.
C12_Witness ==
    /\ pc.loop = "lock"
    /\ pc.audio = "fold"
    /\ lock = "audio"
    /\ state.current_db # hist.committed[1]
    /\ blocks >= 1

\* C13 (no lock across sleep or output): the control loop does not hold the
\* lock while it sleeps or while it writes to the console.
C13_LockFreeOutput ==
    pc.loop \in {"sleep", "print"} => lock # "loop"

====
